---------------------------- MODULE Spec2Model ----------------------------
(***************************************************************************)
(* A model of two utilities of the SageMaker Python SDK:                   *)
(*   - sagemaker/workflow/lambda_step.py : LambdaOutput and LambdaStep     *)
(*   - sagemaker/image_uris.py           : retrieve and its helpers        *)
(*                                                                         *)
(* Python strings are TLA+ strings, joined with \o.  Instance-type strings *)
(* are sequences of one-character strings, because a regular expression is *)
(* matched against them.  Python dicts are functions on their keys, Python *)
(* lists are sequences.  A call either returns a value or raises: results  *)
(* are records with an ok flag.                                            *)
(***************************************************************************)
EXTENDS Integers, Sequences, FiniteSets, TLC

VARIABLES step, createCalls, op, ret,      \* the Lambda step and its last call
          calls,                           \* the platform calls that call made
          request, result,                 \* the last call of image_uris.retrieve
          pcall, presult                   \* the last call of image_uris._processor

vars == <<step, createCalls, op, ret, calls, request, result, pcall, presult>>
stepVars == <<step, createCalls, op, ret, calls>>
retrieveVars == <<request, result>>
processorVars == <<pcall, presult>>

\* Python's None, where the value is otherwise a string.
None == "<None>"

\* str(x) as used by f-strings and str.format.
Str(x) == IF x = None THEN "None" ELSE x

\* Truthiness of an optional string: None and "" are falsy.
Truthy(x) == x # None /\ x # ""

Range(s) == {s[i] : i \in DOMAIN s}

\* dict.update: the keys of u override those of d.
Update(d, u) == u @@ d

(***************************************************************************)
(* Bounds of the model.                                                    *)
(***************************************************************************)
MaxOutputs == 2     \* longest list of declared outputs
MaxCalls == 2       \* most create() calls counted on one step

(***************************************************************************)
(*                          workflow/lambda_step.py                        *)
(***************************************************************************)

\* LambdaOutputTypeEnum: member name -> value.
LambdaOutputTypeEnum ==
  [String |-> "String", Integer |-> "Integer", Boolean |-> "Boolean", Float |-> "Float"]

\* LambdaOutput.to_request
LambdaOutput_to_request(self) ==
  [OutputName |-> self.output_name, OutputType |-> LambdaOutputTypeEnum[self.output_type]]

\* LambdaOutput._expr / the path given to Properties in LambdaStep.__init__
OutputPath(root_path, output_name) ==
  root_path \o ".OutputParameters['" \o output_name \o "']"

\* property_dict of LambdaStep.__init__: one entry per distinct output name.
PropertyDict(root_path, outputs) ==
  [n \in {outputs[i].output_name : i \in DOMAIN outputs} |-> OutputPath(root_path, n)]

\* LambdaStep.__init__: optional arguments are records with a given flag.
LambdaStep_init(name, lambda_func, inputs, outputs, cache_config, depends_on) ==
  LET outs == IF outputs.given THEN outputs.val ELSE <<>>
      root_path == "Steps." \o name
  IN [constructed |-> TRUE,
      name |-> name,
      depends_on |-> depends_on,
      lambda_func |-> lambda_func,
      outputs |-> outs,
      cache_config |-> cache_config,
      inputs |-> IF inputs.given THEN inputs.val ELSE <<>>,
      _properties |-> [path |-> root_path, Outputs |-> PropertyDict(root_path, outs)]]

\* LambdaStep.arguments
arguments(self) == self.inputs

\* LambdaStep.properties
properties(self) == self._properties

\* str.lower() on the region names the model draws.
Lower(s) ==
  CASE s = "CN-NORTH-1" -> "cn-north-1"
    [] s = "Cn-Northwest-1" -> "cn-northwest-1"
    [] s = "US-West-2" -> "us-west-2"
    [] OTHER -> s

\* The partition chosen at the top of _get_function_arn.
Partition(region) ==
  IF Lower(region) = "cn-north-1" \/ Lower(region) = "cn-northwest-1"
  THEN "aws-cn" ELSE "aws"

\* "ResourceConflictException" in str(error): an error text is a sequence of
\* fragments, the marker being a fragment of its own.
ConflictMarker == "ResourceConflictException"

Contains(text, marker) == \E i \in DOMAIN text : text[i] = marker

\* The ARN built in the except branch of _get_function_arn.
SynthesizedArn(partition, region, account_id, function_name) ==
  "arn:" \o partition \o ":lambda:" \o region \o ":" \o account_id
         \o ":function:" \o function_name

\* A call of the external platform client, with its outcome.
AccountCall(outcome) == [call |-> "account_id", outcome |-> outcome]
CreateCall(outcome) == [call |-> "create", outcome |-> outcome]

\* The create() calls among a sequence of platform calls.
NumCreates(cs) == Cardinality({i \in DOMAIN cs : cs[i].call = "create"})

\* LambdaStep._get_function_arn.  account is the outcome of
\* session.account_id(), created the outcome of lambda_func.create(), both
\* of the external platform client.  calls lists the platform calls made.
GetFunctionArnEager(lambda_func, account, created) ==
  LET first == <<AccountCall(account)>>
      both == <<AccountCall(account), CreateCall(created)>>
  IN
  IF ~account.ok THEN [ok |-> FALSE, error |-> account.error, calls |-> first]
  ELSE IF created.ok
  THEN [ok |-> TRUE, val |-> created.response.FunctionArn, calls |-> both]
  ELSE [ok |-> FALSE, error |-> created.error, calls |-> both]

GetFunctionArnSwallow(lambda_func, account, created) ==
  LET region == lambda_func.session.boto_region_name
      partition == Partition(region)
      first == <<AccountCall(account)>>
      both == <<AccountCall(account), CreateCall(created)>>
  IN IF lambda_func.function_arn = None
     THEN IF ~account.ok
          THEN [ok |-> FALSE, error |-> account.error, calls |-> first]
          ELSE IF created.ok
          THEN [ok |-> TRUE, val |-> created.response.FunctionArn, calls |-> both]
          ELSE [ok |-> TRUE,
                val |-> SynthesizedArn(partition, region, account.id,
                                       lambda_func.function_name),
                calls |-> both]
     ELSE [ok |-> TRUE, val |-> lambda_func.function_arn, calls |-> <<>>]

GetFunctionArnRetry(lambda_func, account, created) ==
  LET region == lambda_func.session.boto_region_name
      partition == Partition(region)
      first == <<AccountCall(account)>>
      both == <<AccountCall(account), CreateCall(created)>>
      again == <<AccountCall(account), CreateCall(created), CreateCall(created)>>
  IN IF lambda_func.function_arn = None
     THEN IF ~account.ok
          THEN [ok |-> FALSE, error |-> account.error, calls |-> first]
          ELSE IF created.ok
          THEN [ok |-> TRUE, val |-> created.response.FunctionArn, calls |-> both]
          ELSE IF created.error.type # "ValueError"
          THEN [ok |-> FALSE, error |-> created.error, calls |-> again]
          ELSE IF ~Contains(created.error.text, ConflictMarker)
          THEN [ok |-> FALSE, error |-> created.error, calls |-> again]
          ELSE [ok |-> TRUE,
                val |-> SynthesizedArn(partition, region, account.id,
                                       lambda_func.function_name),
                calls |-> both]
     ELSE [ok |-> TRUE, val |-> lambda_func.function_arn, calls |-> <<>>]

_get_function_arn(lambda_func, account, created) ==
  LET region == lambda_func.session.boto_region_name
      partition == Partition(region)
      first == <<AccountCall(account)>>
      both == <<AccountCall(account), CreateCall(created)>>
  IN IF lambda_func.function_arn = None
     THEN IF ~account.ok
          THEN [ok |-> FALSE, error |-> account.error, calls |-> first]
          ELSE IF created.ok
          THEN [ok |-> TRUE, val |-> created.response.FunctionArn, calls |-> both]
          ELSE IF created.error.type # "ValueError"
          THEN [ok |-> FALSE, error |-> created.error, calls |-> both]
          ELSE IF ~Contains(created.error.text, ConflictMarker)
          THEN [ok |-> FALSE, error |-> created.error, calls |-> both]
          ELSE [ok |-> TRUE,
                val |-> SynthesizedArn(partition, region, account.id,
                                       lambda_func.function_name),
                calls |-> both]
     ELSE [ok |-> TRUE, val |-> lambda_func.function_arn, calls |-> <<>>]

\* Step.to_request of the parent class: name, type tag, dependency list.
BaseRequest(self) ==
  LET base == [Name |-> self.name, Type |-> "Lambda"]
  IN IF self.depends_on.given /\ self.depends_on.val # <<>>
     THEN Update(base, [DependsOn |-> self.depends_on.val])
     ELSE base

\* CacheConfig.config
CacheConfigConfig(cache_config) ==
  [CacheConfig |-> [Enabled |-> cache_config.enable_caching,
                    ExpireAfter |-> cache_config.expire_after]]

\* list(map(lambda op: op.to_request(), self.outputs))
OutputParametersReversed(outputs) ==
  [i \in DOMAIN outputs |-> LambdaOutput_to_request(outputs[Len(outputs) + 1 - i])]

OutputParameters(outputs) ==
  [i \in DOMAIN outputs |-> LambdaOutput_to_request(outputs[i])]

\* LambdaStep.to_request
to_request(self, account, created) ==
  LET request_dict == BaseRequest(self)
      cached == IF self.cache_config.given
                THEN Update(request_dict, CacheConfigConfig(self.cache_config.val))
                ELSE request_dict
      function_arn == _get_function_arn(self.lambda_func, account, created)
  IN IF ~function_arn.ok
     THEN [ok |-> FALSE, error |-> function_arn.error, calls |-> function_arn.calls]
     ELSE [ok |-> TRUE,
           val |-> Update(Update(cached, [FunctionArn |-> function_arn.val]),
                          [OutputParameters |-> OutputParameters(self.outputs)]),
           calls |-> function_arn.calls]

(***************************************************************************)
(* Inputs of the step model.                                               *)
(***************************************************************************)
Absent == [given |-> FALSE]
Given(v) == [given |-> TRUE, val |-> v]

StepNames == {"MyLambdaStep"}

DeclaredOutputs ==
  {[output_name |-> "A", output_type |-> "String"],
   [output_name |-> "B", output_type |-> "Integer"],
   [output_name |-> "A", output_type |-> "Boolean"],
   [output_name |-> "C", output_type |-> "Float"]}

SeqsUpTo(S, n) == UNION {[1..k -> S] : k \in 0..n}

OutputLists == {Absent} \cup {Given(s) : s \in SeqsUpTo(DeclaredOutputs, MaxOutputs)}

InputDicts == {Absent, Given([arg1 |-> "foo"])}

CacheConfigs == {Absent, Given([enable_caching |-> TRUE, expire_after |-> "PT1H"])}

DependsOnLists == {Absent, Given(<<"OtherStep">>)}

StepRegions == {"us-west-2", "cn-north-1", "cn-northwest-1", "CN-NORTH-1"}

ExistingArn == "arn:aws:lambda:us-west-2:111122223333:function:existing"
CreatedArn == "arn:aws:lambda:us-west-2:111122223333:function:created"

LambdaFuncs ==
  {[function_arn |-> a, function_name |-> "my-func",
    session |-> [boto_region_name |-> r]] : a \in {None, ExistingArn}, r \in StepRegions}

\* Outcomes of session.account_id().
AccountOutcomes ==
  {[ok |-> TRUE, id |-> "111122223333"],
   [ok |-> FALSE, error |-> [type |-> "ClientError", text |-> <<"ExpiredToken">>]]}

\* Outcomes of lambda_func.create(): the response, a ValueError built from the
\* platform's error, or an error of another type.
CreateOutcomes ==
  {[ok |-> TRUE, response |-> [FunctionArn |-> CreatedArn]],
   [ok |-> FALSE,
    error |-> [type |-> "ValueError",
               text |-> <<"{'Message': 'Function already exist: my-func', 'Code': '",
                          "ResourceConflictException", "'}">>]],
   [ok |-> FALSE,
    error |-> [type |-> "ValueError",
               text |-> <<"{'Message': 'not authorized', 'Code': '",
                          "AccessDeniedException", "'}">>]],
   [ok |-> FALSE,
    error |-> [type |-> "ValueError", text |-> <<"ResourceConflictException">>]],
   [ok |-> FALSE,
    error |-> [type |-> "EndpointConnectionError",
               text |-> <<"Could not connect to the endpoint URL">>]]}

NoStep == [constructed |-> FALSE]
NoReturn == [kind |-> "none"]

\* The result of a call that was not made yet.
Pending == [kind |-> "none"]

(***************************************************************************)
(* The step as a state machine.                                            *)
(***************************************************************************)
\* No step is constructed yet; the image_uris variables are idle.
Init ==
  /\ step = NoStep
  /\ createCalls = 0
  /\ op = "none"
  /\ ret = NoReturn
  /\ calls = <<>>
  /\ request = [framework |-> None]
  /\ result = [kind |-> "none"]
  /\ pcall = [instance_type |-> <<>>, available_processors |-> <<>>]
  /\ presult = [kind |-> "none"]

Construct ==
  /\ ~step.constructed
  /\ \E name \in StepNames, lambda_func \in LambdaFuncs, inputs \in InputDicts,
        outputs \in OutputLists, cache_config \in CacheConfigs,
        depends_on \in DependsOnLists :
       step' = LambdaStep_init(name, lambda_func, inputs, outputs, cache_config,
                               depends_on)
  /\ op' = "init"
  /\ ret' = NoReturn
  /\ calls' = <<>>
  /\ UNCHANGED <<createCalls, retrieveVars, processorVars>>

ReadArguments ==
  /\ step.constructed
  /\ op' = "arguments"
  /\ ret' = [kind |-> "arguments", val |-> arguments(step)]
  /\ calls' = <<>>
  /\ UNCHANGED <<step, createCalls, retrieveVars, processorVars>>

ReadProperties ==
  /\ step.constructed
  /\ op' = "properties"
  /\ ret' = [kind |-> "properties", val |-> properties(step)]
  /\ calls' = <<>>
  /\ UNCHANGED <<step, createCalls, retrieveVars, processorVars>>

ToRequest ==
  /\ step.constructed
  /\ createCalls < MaxCalls
  /\ \E account \in AccountOutcomes, created \in CreateOutcomes :
       LET r == to_request(step, account, created)
       IN /\ createCalls' = createCalls + NumCreates(r.calls)
          /\ calls' = r.calls
          /\ ret' = IF r.ok THEN [kind |-> "request", val |-> r.val]
                            ELSE [kind |-> "raise", error |-> r.error]
  /\ op' = "to_request"
  /\ UNCHANGED <<step, retrieveVars, processorVars>>

StepNext == Construct \/ ReadArguments \/ ReadProperties \/ ToRequest

Spec == Init /\ [][StepNext]_vars

(***************************************************************************)
(*                              image_uris.py                              *)
(***************************************************************************)

\* Characters.  Patterns are matched on ASCII text.
LowerLetters ==
  {"a", "b", "c", "d", "e", "f", "g", "h", "i", "j", "k", "l", "m",
   "n", "o", "p", "q", "r", "s", "t", "u", "v", "w", "x", "y", "z"}
UpperLetters ==
  {"A", "B", "C", "D", "E", "F", "G", "H", "I", "J", "K", "L", "M",
   "N", "O", "P", "Q", "R", "S", "T", "U", "V", "W", "X", "Y", "Z"}
Digits == {"0", "1", "2", "3", "4", "5", "6", "7", "8", "9"}
Newline == "\n"

\* [a-z\d] and \w of the instance-type pattern.
FamilyChars == LowerLetters \cup Digits
WordChars == LowerLetters \cup UpperLetters \cup Digits \cup {"_"}

\* The string spelled by a sequence of characters.
RECURSIVE StrOf(_)
StrOf(cs) == IF cs = <<>> THEN "" ELSE Head(cs) \o StrOf(Tail(cs))

\* str.startswith on character sequences.
StartsWith(cs, prefix) ==
  Len(cs) >= Len(prefix) /\ SubSeq(cs, 1, Len(prefix)) = prefix

AllIn(cs, from, to, S) == \A i \in from..to : cs[i] \in S

\* re.match(r"^ml[\._]([a-z\d]+)\.?\w*$", instance_type): the lengths k of
\* group 1 for which the whole pattern matches.  "$" matches at the end of the
\* string and before a newline that ends it.
FamilyLengths(instance_type) ==
  LET n == Len(instance_type)
      ends == {n} \cup (IF n > 0 /\ instance_type[n] = Newline THEN {n - 1} ELSE {})
  IN {k \in 1..n :
        /\ n >= 3 + k
        /\ instance_type[1] = "m" /\ instance_type[2] = "l"
        /\ instance_type[3] \in {".", "_"}
        /\ AllIn(instance_type, 4, 3 + k, FamilyChars)
        /\ \E e \in ends :
             /\ e >= 3 + k
             /\ \/ AllIn(instance_type, 4 + k, e, WordChars)
                \/ /\ e >= 4 + k
                   /\ instance_type[4 + k] = "."
                   /\ AllIn(instance_type, 5 + k, e, WordChars)}

Max(S) == CHOOSE x \in S : \A y \in S : y <= x

\* The match object: group 1 is greedy, so it is the longest that matches.
InstanceTypeMatch(instance_type) ==
  LET ks == FamilyLengths(instance_type)
  IN IF ks = {} THEN [matched |-> FALSE]
     ELSE [matched |-> TRUE, family |-> SubSeq(instance_type, 4, 3 + Max(ks))]

\* Exceptions.  options is the set of the options the message lists.
ValueError(what, arg_name, arg, options) ==
  [type |-> "ValueError", what |-> what, arg_name |-> arg_name, arg |-> arg,
   options |-> options]

Raise(e) == [ok |-> FALSE, error |-> e]
Return(v) == [ok |-> TRUE, val |-> v]

\* _validate_arg: available_options is the set of the list's members or of the
\* dict's keys.
_validate_arg(arg, available_options, arg_name) ==
  IF arg \notin available_options
  THEN Raise(ValueError("Unsupported", arg_name, Str(arg), available_options))
  ELSE Return(None)

\* The processor the instance family stands for (the match branch of
\* _processor).
FamilyProcessor(family, available_processors) ==
  IF StrOf(family) \in Range(available_processors) THEN StrOf(family)
  ELSE IF StartsWith(family, <<"i", "n", "f">>) THEN "inf"
  ELSE IF family[1] \in {"g", "p"} THEN "gpu"
  ELSE "cpu"

\* _processor.  None and "" are both falsy instance types and None and [] both
\* falsy processor lists; the code tells neither pair apart, and the model
\* writes <<>> for each.
ProcessorNoInf(instance_type, available_processors) ==
  LET match == InstanceTypeMatch(instance_type)
      processor ==
        IF StartsWith(instance_type, <<"l", "o", "c", "a", "l">>)
        THEN (IF instance_type = <<"l", "o", "c", "a", "l">> THEN "cpu" ELSE "gpu")
        ELSE IF StrOf(match.family) \in Range(available_processors)
             THEN StrOf(match.family)
             ELSE IF match.family[1] \in {"g", "p"} THEN "gpu" ELSE "cpu"
  IN IF available_processors = <<>> THEN Return(None)
     ELSE IF Len(available_processors) = 1 /\ instance_type = <<>>
     THEN Return(available_processors[1])
     ELSE IF instance_type = <<>>
     THEN Raise(ValueError("Empty SageMaker instance type", None, None, {}))
     ELSE IF ~StartsWith(instance_type, <<"l", "o", "c", "a", "l">>) /\ ~match.matched
     THEN Raise(ValueError("Invalid SageMaker instance type", None,
                           StrOf(instance_type), {}))
     ELSE LET v == _validate_arg(processor, Range(available_processors), "processor")
          IN IF v.ok THEN Return(processor) ELSE v

_processor(instance_type, available_processors) ==
  LET match == InstanceTypeMatch(instance_type)
      processor ==
        IF StartsWith(instance_type, <<"l", "o", "c", "a", "l">>)
        THEN (IF instance_type = <<"l", "o", "c", "a", "l">> THEN "cpu" ELSE "gpu")
        ELSE FamilyProcessor(match.family, available_processors)
  IN IF available_processors = <<>> THEN Return(None)
     ELSE IF Len(available_processors) = 1 /\ instance_type = <<>>
     THEN Return(available_processors[1])
     ELSE IF instance_type = <<>>
     THEN Raise(ValueError("Empty SageMaker instance type", None, None, {}))
     ELSE IF ~StartsWith(instance_type, <<"l", "o", "c", "a", "l">>) /\ ~match.matched
     THEN Raise(ValueError("Invalid SageMaker instance type", None,
                           StrOf(instance_type), {}))
     ELSE LET v == _validate_arg(processor, Range(available_processors), "processor")
          IN IF v.ok THEN Return(processor) ELSE v

\* _should_auto_select_container_version.  distribution is a dict (None and {}
\* are both falsy, written <<>>).
ShouldAutoSelectAlways(instance_type, distribution) == TRUE

_should_auto_select_container_version(instance_type, distribution) ==
  LET match == InstanceTypeMatch(instance_type)
      p4d == IF instance_type # <<>> /\ match.matched
             THEN match.family = <<"p", "4", "d">>
             ELSE FALSE
      smdistributed == IF distribution # <<>>
                       THEN "smdistributed" \in DOMAIN distribution
                       ELSE FALSE
  IN p4d \/ smdistributed

(***************************************************************************)
(* image_uri_config/<framework>.json: the config table, one dict per       *)
(* framework name, with the nesting of the files the SDK ships.            *)
(***************************************************************************)
Registries == ("us-west-2" :> "763104351884") @@ ("cn-north-1" :> "727897471807")

AlgoRegistries == ("us-west-2" :> "433757028032") @@ ("cn-north-1" :> "390948362332")

TensorflowConfig ==
  [eia |->
     [processors |-> <<"cpu">>,
      version_aliases |-> ("2.3" :> "2.3.0"),
      versions |-> ("2.3.0" :> [registries |-> Registries,
                                repository |-> "tensorflow-inference-eia"])],
   inference |->
     [processors |-> <<"cpu", "gpu">>,
      version_aliases |-> ("2.3" :> "2.3.1"),
      versions |-> ("2.3.1" :> [registries |-> Registries,
                                repository |-> "tensorflow-inference"])
               @@ ("2.4.1" :> [registries |-> Registries,
                               repository |-> "tensorflow-inference"])],
   training |->
     [processors |-> <<"cpu", "gpu">>,
      version_aliases |-> ("2.3" :> "2.3.1"),
      versions |-> ("2.3.1" :> [py_versions |-> <<"py37">>,
                                registries |-> Registries,
                                repository |-> "tensorflow-training"])
               @@ ("2.4.1" :> [py_versions |-> <<"py37">>,
                               registries |-> Registries,
                               repository |-> "tensorflow-training"])]]

XgboostConfig ==
  [scope |-> <<"inference", "training">>,
   versions |-> ("1" :> [registries |-> AlgoRegistries, repository |-> "xgboost"])
            @@ ("0.90-1" :> [processors |-> <<"cpu">>,
                             py_versions |-> <<"py3">>,
                             registries |-> Registries,
                             repository |-> "sagemaker-xgboost"])]

BlazingtextConfig ==
  [scope |-> <<"inference", "training">>,
   versions |-> ("1" :> [registries |-> AlgoRegistries, repository |-> "blazingtext"])]

InferentiaMxnetConfig ==
  [processors |-> <<"inf">>,
   scope |-> <<"inference">>,
   versions |-> ("1.5.1" :> [py_versions |-> <<"py3">>,
                             registries |-> Registries,
                             repository |-> "neo-mxnet"])]

SparkConfig ==
  [processing |->
     [processors |-> <<"cpu">>,
      versions |-> ("2.4" :> [py_versions |-> <<"py37">>,
                              registries |-> Registries,
                              repository |-> "sagemaker-spark-processing"])
               @@ ("3.0" :> [py_versions |-> <<"py37">>,
                             registries |-> Registries,
                             repository |-> "sagemaker-spark-processing"])]]

HuggingfaceVersion(repository) ==
  ("version_aliases" :> ("pytorch1.6" :> "pytorch1.6.0"))
  @@ ("pytorch1.6.0" :> [py_versions |-> <<"py36">>,
                         registries |-> Registries,
                         repository |-> repository])

HuggingfaceConfig ==
  [training |->
     [processors |-> <<"gpu">>,
      version_aliases |-> ("4.4" :> "4.4.2"),
      versions |-> ("4.4.2" :> HuggingfaceVersion("huggingface-pytorch-training"))
               @@ ("4.6.1" :> HuggingfaceVersion("huggingface-pytorch-training"))],
   inference |->
     [processors |-> <<"cpu", "gpu">>,
      version_aliases |-> ("4.6" :> "4.6.1"),
      versions |-> ("4.6.1" :> HuggingfaceVersion("huggingface-pytorch-inference"))]]

HuggingfaceTrainingCompilerConfig ==
  [training |->
     [processors |-> <<"gpu">>,
      version_aliases |-> ("4.11" :> "4.11.0"),
      versions |->
        ("4.11.0" :> HuggingfaceVersion("huggingface-pytorch-trcomp-training"))]]

\* A config whose only version has an empty tag prefix: its images have no tag.
UntaggedConfig ==
  [scope |-> <<"inference", "training">>,
   versions |-> ("1" :> [registries |-> AlgoRegistries,
                         repository |-> "untagged-algo",
                         tag_prefix |-> ""])]

ConfigTable ==
  [tensorflow |-> TensorflowConfig,
   xgboost |-> XgboostConfig,
   blazingtext |-> BlazingtextConfig,
   spark |-> SparkConfig,
   huggingface |-> HuggingfaceConfig,
   untagged |-> UntaggedConfig]
  @@ ("inferentia-mxnet" :> InferentiaMxnetConfig)
  @@ ("huggingface-training-compiler" :> HuggingfaceTrainingCompilerConfig)

\* utils._botocore_resolver().construct_endpoint("ecr", region)["hostname"]
Hostname(region) ==
  IF region \in {"cn-north-1", "cn-northwest-1"}
  THEN "ecr." \o region \o ".amazonaws.com.cn"
  ELSE "ecr." \o region \o ".amazonaws.com"

(***************************************************************************)
(* retrieve and its helpers.                                               *)
(***************************************************************************)
HUGGING_FACE_FRAMEWORK == "huggingface"

\* defaults.SPARK_NAME
SPARK_NAME == "spark"

\* dict.get(key, default) and "key in dict".
Get(d, k, default) == IF k \in DOMAIN d THEN d[k] ELSE default
Has(d, k) == k \in DOMAIN d

OtherError(type, what) ==
  [type |-> type, what |-> what, arg_name |-> None, arg |-> None, options |-> {}]

\* config_for_framework: opening a file that does not exist raises.
config_for_framework(framework) ==
  IF framework \in DOMAIN ConfigTable
  THEN Return(ConfigTable[framework])
  ELSE Raise(OtherError("FileNotFoundError", "No such file or directory"))

\* _validate_accelerator_type, on a character sequence.
_validate_accelerator_type(accelerator_type) ==
  IF /\ ~StartsWith(accelerator_type, <<"m", "l", ".", "e", "i", "a">>)
     /\ StrOf(accelerator_type) # "local_sagemaker_notebook"
  THEN Raise(ValueError("Invalid SageMaker Elastic Inference accelerator type",
                        None, StrOf(accelerator_type), {}))
  ELSE Return(None)

\* _config_for_framework_and_scope.  The value returned is config; image_scope
\* and the warnings logged are reported with it.
_config_for_framework_and_scope(framework, image_scope, accelerator_type) ==
  LET accel == _validate_accelerator_type(accelerator_type)
      warn1 == IF accelerator_type # <<>> /\ image_scope \notin {"eia", "inference"}
               THEN <<"Elastic inference is for inference only. Ignoring image scope">>
               ELSE <<>>
      scope1 == IF accelerator_type # <<>> THEN "eia" ELSE image_scope
      \* _validate_arg(image_scope, available_scopes, "image scope") and the return
      Selected(config, is_list, members, scope3, warn2) ==
        LET v == _validate_arg(scope3, members, "image scope")
        IN IF ~v.ok THEN v
           ELSE Return([config |-> IF is_list THEN config ELSE config[scope3],
                        image_scope |-> scope3, warnings |-> warn1 \o warn2])
      \* available_scopes is the "scope" list, or else the dict's keys view
      Available(config, is_list, length, members, first) ==
        LET warns2 == length = 1 /\ Truthy(scope1) /\ scope1 # first
            scope2 == IF length = 1 THEN first ELSE scope1
        IN IF warns2 /\ ~is_list
           THEN \* available_scopes[0] on a dict's keys view, for the warning
                Raise(OtherError("TypeError", "'dict_keys' object is not subscriptable"))
           ELSE Selected(config, is_list, members,
                         IF ~Truthy(scope2) /\ is_list /\ members = {"training", "inference"}
                         THEN config["scope"][1] ELSE scope2,
                         IF warns2
                         THEN <<"Defaulting to only supported image scope. Ignoring image scope">>
                         ELSE <<>>)
      Loaded(config, is_list) ==
        Available(config, is_list,
                  IF is_list THEN Len(config["scope"]) ELSE Cardinality(DOMAIN config),
                  IF is_list THEN Range(config["scope"]) ELSE DOMAIN config,
                  IF is_list THEN config["scope"][1] ELSE CHOOSE k \in DOMAIN config : TRUE)
      Opened(loaded) ==
        IF ~loaded.ok THEN loaded
        ELSE IF accelerator_type # <<>> /\ ~accel.ok THEN accel
        ELSE Loaded(loaded.val, Has(loaded.val, "scope"))
  IN Opened(config_for_framework(framework))

\* _validate_version_and_set_if_needed
_validate_version_and_set_if_needed(version, config, framework) ==
  LET available_versions == DOMAIN config["versions"]
      aliased_versions == DOMAIN Get(config, "version_aliases", <<>>)
      v == _validate_arg(version, available_versions \cup aliased_versions,
                         framework \o " version")
  IN IF Cardinality(available_versions) = 1 /\ version \notin aliased_versions
     THEN Return(CHOOSE x \in available_versions : TRUE)
     ELSE IF ~v.ok THEN v ELSE Return(version)

\* _version_for_config
_version_for_config(version, config) ==
  IF Has(config, "version_aliases") /\ version \in DOMAIN config["version_aliases"]
  THEN config["version_aliases"][version]
  ELSE version

\* _registry_from_region
RegistryFromRegionLenient(region, registry_dict) ==
  Return(IF region \in DOMAIN registry_dict THEN registry_dict[region]
         ELSE "000000000000")

_registry_from_region(region, registry_dict) ==
  LET v == _validate_arg(region, DOMAIN registry_dict, "region")
  IN IF ~v.ok THEN v ELSE Return(registry_dict[region])

\* _validate_py_version_and_set_if_needed
_validate_py_version_and_set_if_needed(py_version, version_config, framework) ==
  LET available_versions ==
        IF Has(version_config, "repository")
        THEN Range(Get(version_config, "py_versions", <<>>))
        ELSE DOMAIN version_config
      v == _validate_arg(py_version, available_versions, "Python version")
  IN IF available_versions = {} THEN Return(None)
     ELSE IF py_version = None /\ SPARK_NAME = framework THEN Return(None)
     ELSE IF py_version = None /\ Cardinality(available_versions) = 1
     THEN Return(CHOOSE x \in available_versions : TRUE)
     ELSE IF ~v.ok THEN v ELSE Return(py_version)

\* "-".join(parts)
RECURSIVE Join(_)
Join(parts) ==
  IF parts = <<>> THEN ""
  ELSE IF Len(parts) = 1 THEN parts[1]
  ELSE parts[1] \o "-" \o Join(Tail(parts))

\* _format_tag
FormatTagNoProcessor(tag_prefix, processor, py_version, container_version) ==
  Join(SelectSeq(<<tag_prefix, py_version, container_version>>, Truthy))

_format_tag(tag_prefix, processor, py_version, container_version) ==
  Join(SelectSeq(<<tag_prefix, processor, py_version, container_version>>, Truthy))

\* The container_versions table of retrieve.
container_versions ==
  ("tensorflow-2.3-gpu-py37" :> "cu110-ubuntu18.04-v3")
  @@ ("tensorflow-2.3.1-gpu-py37" :> "cu110-ubuntu18.04")
  @@ ("tensorflow-2.3.2-gpu-py37" :> "cu110-ubuntu18.04")
  @@ ("tensorflow-1.15-gpu-py37" :> "cu110-ubuntu18.04-v8")
  @@ ("tensorflow-1.15.4-gpu-py37" :> "cu110-ubuntu18.04")
  @@ ("tensorflow-1.15.5-gpu-py37" :> "cu110-ubuntu18.04")
  @@ ("mxnet-1.8-gpu-py37" :> "cu110-ubuntu16.04-v1")
  @@ ("mxnet-1.8.0-gpu-py37" :> "cu110-ubuntu16.04")
  @@ ("pytorch-1.6-gpu-py36" :> "cu110-ubuntu18.04-v3")
  @@ ("pytorch-1.6.0-gpu-py36" :> "cu110-ubuntu18.04")
  @@ ("pytorch-1.6-gpu-py3" :> "cu110-ubuntu18.04-v3")
  @@ ("pytorch-1.6.0-gpu-py3" :> "cu110-ubuntu18.04")

\* re.compile("^(pytorch|tensorflow)(.*)$").match(base_framework_version), on
\* the base framework versions the model draws: the framework name and the rest.
BaseFrameworkParts ==
  ("pytorch1.6" :> <<"pytorch", "1.6">>)
  @@ ("pytorch1.6.0" :> <<"pytorch", "1.6.0">>)
  @@ ("tensorflow2.4.1" :> <<"tensorflow", "2.4.1">>)
  @@ ("mxnet1.8.0" :> <<"mxnet", "1.8.0">>)

PtOrTfMatch(base_framework_version) ==
  IF /\ base_framework_version \in DOMAIN BaseFrameworkParts
     /\ BaseFrameworkParts[base_framework_version][1] \in {"pytorch", "tensorflow"}
  THEN [matched |-> TRUE, group2 |-> BaseFrameworkParts[base_framework_version][2]]
  ELSE [matched |-> FALSE]

\* ECR_URI_TEMPLATE.format(registry=..., hostname=..., repository=...)
ECR_URI_TEMPLATE(registry, hostname, repository) ==
  registry \o ".dkr." \o hostname \o "/" \o repository

\* The tag after the auto-select step of retrieve.
AutoSelectedTag(framework, tag, instance_type, distribution) ==
  IF _should_auto_select_container_version(instance_type, distribution)
  THEN LET key == Join(<<framework, tag>>)
       IN IF key \in DOMAIN container_versions
          THEN Join(<<tag, container_versions[key]>>)
          ELSE tag
  ELSE tag

\* repo += ":{}".format(tag), if tag
Tagged(repo, tag) == IF tag # "" THEN repo \o ":" \o tag ELSE repo

\* retrieve, from the version config on (a is the call's arguments, version the
\* validated version, version_config0 the config of the version and, for
\* HuggingFace, of the base framework).  The steps are written last first: each
\* takes what the steps before it have bound.
RetrieveTail(a, config, version, version_config0) ==
  LET is_hf == a.framework = HUGGING_FACE_FRAMEWORK
      m == PtOrTfMatch(a.base_framework_version)
      hostname == Hostname(a.region)
      configured == Get(config, "processors", <<>>)
      \* container version, tag and URI
      Built(py_version, version_config, registry, proc) ==
        LET processor == proc.val
            repo == version_config["repository"]
            has_cv == Has(version_config, "container_version")
                        /\ version_config["container_version"] # <<>>
            container_version ==
              IF has_cv THEN version_config["container_version"][processor]
              ELSE a.container_version
            _version == IF repo \in {"huggingface-pytorch-trcomp-training",
                                     "huggingface-tensorflow-trcomp-training"}
                        THEN version ELSE a.version
            tag_prefix == IF is_hf
                          THEN m.group2 \o "-transformers" \o Str(_version)
                          ELSE Get(version_config, "tag_prefix", version)
            tag0 == _format_tag(tag_prefix, processor, py_version, container_version)
            tag == AutoSelectedTag(a.framework, tag0, a.instance_type, a.distribution)
        IN IF ~registry.ok THEN registry
           ELSE IF ~proc.ok THEN proc
           ELSE IF has_cv /\ processor \notin DOMAIN version_config["container_version"]
           THEN Raise(OtherError("KeyError", Str(processor)))
           ELSE IF is_hf /\ ~m.matched
           THEN Raise(OtherError("AttributeError",
                                 "'NoneType' object has no attribute 'group'"))
           ELSE [ok |-> TRUE,
                 val |-> ECR_URI_TEMPLATE(registry.val, hostname, Tagged(repo, tag)),
                 frame |-> [registry |-> registry.val, hostname |-> hostname,
                            repository |-> repo, tag_prefix |-> tag_prefix,
                            processor |-> processor, py_version |-> py_version,
                            container_version |-> container_version,
                            tag0 |-> tag0, tag |-> tag]]
      \* registry and processor
      Located(py_version, version_config) ==
        Built(py_version, version_config,
              _registry_from_region(a.region, version_config["registries"]),
              _processor(a.instance_type,
                         IF configured # <<>> THEN configured
                         ELSE Get(version_config, "processors", <<>>)))
      \* the config of the runtime version, if the version config has one
      Runtime(py) ==
        IF ~py.ok THEN py
        ELSE Located(py.val, IF py.val \in DOMAIN version_config0
                             THEN version_config0[py.val] ELSE version_config0)
  IN Runtime(_validate_py_version_and_set_if_needed(a.py_version, version_config0,
                                                    a.framework))

\* retrieve.  The steps are written last first, as in RetrieveTail.
retrieve(a) ==
  LET is_hf == a.framework = HUGGING_FACE_FRAMEWORK
      \* the base framework version of a HuggingFace image
      Based(config, version, version_config) ==
        LET aliases == Get(version_config, "version_aliases", <<>>)
            full_base_framework_version ==
              Get(aliases, a.base_framework_version, a.base_framework_version)
            base == _validate_arg(full_base_framework_version, DOMAIN version_config,
                                  "base framework")
        IN IF ~is_hf THEN RetrieveTail(a, config, version, version_config)
           ELSE IF aliases = <<>>
           THEN Raise(OtherError("UnboundLocalError", "full_base_framework_version"))
           ELSE IF ~base.ok THEN base
           ELSE RetrieveTail(a, config, version,
                             version_config[full_base_framework_version])
      \* config["versions"][_version_for_config(version, config)]
      Keyed(config, version, key) ==
        IF key \notin DOMAIN config["versions"]
        THEN Raise(OtherError("KeyError", Str(key)))
        ELSE Based(config, version, config["versions"][key])
      Validated(config, validated) ==
        IF ~validated.ok THEN validated
        ELSE Keyed(config, validated.val, _version_for_config(validated.val, config))
      Scoped(scoped) ==
        IF ~scoped.ok THEN scoped
        ELSE Validated(scoped.val.config,
                       _validate_version_and_set_if_needed(a.version, scoped.val.config,
                                                           a.framework))
  IN Scoped(IF a.training_compiler_config = None
            THEN _config_for_framework_and_scope(a.framework, a.image_scope,
                                                 a.accelerator_type)
            ELSE IF a.framework = HUGGING_FACE_FRAMEWORK
            THEN _config_for_framework_and_scope(a.framework \o "-training-compiler",
                                                 a.image_scope, a.accelerator_type)
            ELSE Raise(ValueError("Unsupported Configuration: Training Compiler", None,
                                  None, {})))

(***************************************************************************)
(* Inputs of the _processor model: every string of at most MaxTypeLen      *)
(* characters of TypeAlphabet, and the instance types below.               *)
(***************************************************************************)
MaxTypeLen == 5

TypeAlphabet == {"m", "l", ".", "_", "p", "X"}

NamedInstanceTypes ==
  {<<"m","l",".","p","3",".","2","x","l","a","r","g","e">>,
   <<"m","l",".","c","5",".","x","l","a","r","g","e">>,
   <<"m","l",".","i","n","f","1",".","x","l","a","r","g","e">>,
   <<"m","l",".","g","4","d","n",".","x","l","a","r","g","e">>,
   <<"m","l",".","p","4","d",".","2","4","x","l","a","r","g","e">>,
   <<"m","l","_","p","3">>,
   <<"l","o","c","a","l">>,
   <<"l","o","c","a","l","_","g","p","u">>,
   <<"l","o","c","a","l","_","c","p","u">>,
   <<"l","o","c","a","l","h","o","s","t">>,
   <<"p","3",".","2","x","l","a","r","g","e">>,
   <<"M","L",".","p","3",".","2","x","l","a","r","g","e">>,
   <<"m","l",".","p","3",".","2","x","-","l","a","r","g","e">>,
   <<"m","l",".","p","3",".","2","x","l","a","r","g","e","\n">>,
   <<"m","l",".","p","3",".","2","x",".","l","a","r","g","e">>}

ProcessorCallTypes == SeqsUpTo(TypeAlphabet, MaxTypeLen) \cup NamedInstanceTypes

ProcessorLists ==
  {<<>>, <<"cpu", "gpu">>, <<"gpu">>, <<"inf">>, <<"cpu", "gpu", "inf">>,
   <<"cpu", "gpu", "p3">>, <<"cpu">>}

\* Every call of _processor the inputs above allow is an initial state.
ProcessorInit ==
  /\ step = NoStep
  /\ createCalls = 0
  /\ op = "none"
  /\ ret = NoReturn
  /\ calls = <<>>
  /\ request = [framework |-> None]
  /\ result = [kind |-> "none"]
  /\ \E t \in ProcessorCallTypes, ps \in ProcessorLists :
       pcall = [instance_type |-> t, available_processors |-> ps]
  /\ presult = Pending

CallProcessor ==
  /\ presult = Pending
  /\ presult' = [kind |-> "done",
                 out |-> _processor(pcall.instance_type, pcall.available_processors)]
  /\ UNCHANGED <<pcall, stepVars, retrieveVars>>

ProcessorNext == CallProcessor

SpecProcessor == ProcessorInit /\ [][ProcessorNext]_vars


(***************************************************************************)
(* Inputs of the retrieve model.                                           *)
(***************************************************************************)
Frameworks ==
  {"tensorflow", "xgboost", "blazingtext", "inferentia-mxnet", "spark",
   "huggingface", "untagged", "nonesuch"}

RetrieveRegions == {"us-west-2", "cn-north-1", "mars-north-1"}

\* The scope-level configs of a framework's config.
ScopeConfigs(config) ==
  IF Has(config, "scope") THEN {config} ELSE {config[k] : k \in DOMAIN config}

DeclaredVersions(framework) ==
  IF framework \notin DOMAIN ConfigTable THEN {}
  ELSE UNION {DOMAIN c["versions"] \cup DOMAIN Get(c, "version_aliases", <<>>) :
                c \in ScopeConfigs(ConfigTable[framework])}

VersionChoices(framework) ==
  {None, "9.9"} \cup DeclaredVersions(framework)
    \cup (IF framework = HUGGING_FACE_FRAMEWORK
          THEN DeclaredVersions("huggingface-training-compiler") ELSE {})

PyVersionChoices(framework) ==
  CASE framework = "tensorflow" -> {None, "py2", "py37"}
    [] framework = "huggingface" -> {None, "py2", "py36"}
    [] framework = "spark" -> {None, "py37"}
    [] OTHER -> {None, "py3"}

RetrieveInstanceTypes ==
  {<<>>,
   <<"m","l",".","p","3",".","2","x","l","a","r","g","e">>,
   <<"m","l",".","c","5",".","x","l","a","r","g","e">>,
   <<"m","l",".","i","n","f","1",".","x","l","a","r","g","e">>,
   <<"m","l",".","p","4","d",".","2","4","x","l","a","r","g","e">>,
   <<"p","3",".","2","x","l","a","r","g","e">>}

AcceleratorTypes ==
  {<<>>,
   <<"m","l",".","e","i","a","1",".","m","e","d","i","u","m">>,
   <<"m","l",".","p","3",".","2","x","l","a","r","g","e">>}

ImageScopes == {None, "training", "inference", "eia"}

ContainerVersionChoices == {None, "cu110-ubuntu18.04"}

Distributions ==
  {<<>>,
   [smdistributed |-> [dataparallel |-> [enabled |-> TRUE]]],
   [parameter_server |-> [enabled |-> TRUE]]}

BaseFrameworkChoices(framework) ==
  IF framework = HUGGING_FACE_FRAMEWORK
  THEN {None, "pytorch1.6", "pytorch1.6.0", "mxnet1.8.0"}
  ELSE {None}

CompilerConfigs == {None, "TrainingCompilerConfig"}

\* Every call of retrieve the inputs above allow is an initial state.
RetrieveInit ==
  /\ step = NoStep
  /\ createCalls = 0
  /\ op = "none"
  /\ ret = NoReturn
  /\ calls = <<>>
  /\ \E f \in Frameworks, r \in RetrieveRegions, t \in RetrieveInstanceTypes,
        acc \in AcceleratorTypes, sc \in ImageScopes, cv \in ContainerVersionChoices,
        d \in Distributions, tcc \in CompilerConfigs :
       \E v \in VersionChoices(f), py \in PyVersionChoices(f),
          b \in BaseFrameworkChoices(f) :
         request = [framework |-> f, region |-> r, version |-> v, py_version |-> py,
                    instance_type |-> t, accelerator_type |-> acc, image_scope |-> sc,
                    container_version |-> cv, distribution |-> d,
                    base_framework_version |-> b, training_compiler_config |-> tcc]
  /\ result = Pending
  /\ pcall = [instance_type |-> <<>>, available_processors |-> <<>>]
  /\ presult = [kind |-> "none"]

Retrieve ==
  /\ result = Pending
  /\ result' = [kind |-> "done", out |-> retrieve(request)]
  /\ UNCHANGED <<request, stepVars, processorVars>>

RetrieveNext == Retrieve

SpecRetrieve == RetrieveInit /\ [][RetrieveNext]_vars

\* The calls of _config_for_framework_and_scope the model makes.
ScopeFrameworks == Frameworks \cup {"huggingface-training-compiler"}

ScopeChoices == ImageScopes \cup {"processing"}

ScopeAccelerators ==
  AcceleratorTypes
    \cup {<<"l","o","c","a","l","_","s","a","g","e","m","a","k","e","r","_",
            "n","o","t","e","b","o","o","k">>}

ScopeInit ==
  /\ step = NoStep
  /\ createCalls = 0
  /\ op = "none"
  /\ ret = NoReturn
  /\ calls = <<>>
  /\ \E f \in ScopeFrameworks, sc \in ScopeChoices, acc \in ScopeAccelerators :
       request = [framework |-> f, image_scope |-> sc, accelerator_type |-> acc]
  /\ result = Pending
  /\ pcall = [instance_type |-> <<>>, available_processors |-> <<>>]
  /\ presult = [kind |-> "none"]

CallScopeConfig ==
  /\ result = Pending
  /\ result' = [kind |-> "done",
                out |-> _config_for_framework_and_scope(
                          request.framework, request.image_scope,
                          request.accelerator_type)]
  /\ UNCHANGED <<request, stepVars, processorVars>>

ScopeNext == CallScopeConfig

SpecScope == ScopeInit /\ [][ScopeNext]_vars


(***************************************************************************)
(*                    Properties of the Lambda step                        *)
(***************************************************************************)

\* The create() call among the platform calls of the last operation, if any.
CreateMade == \E i \in DOMAIN calls : calls[i].call = "create"
CreateOutcome == calls[CHOOSE i \in DOMAIN calls : calls[i].call = "create"].outcome

\* C1: create() is called only by to_request() and only on a descriptor whose
\* function_arn is None: construction and the arguments/properties accessors
\* make no platform call, and with an identifier present to_request() makes
\* no create() call and returns a request whose FunctionArn is that identifier.
C1_CreateOnlyWhenBuildingRequest ==
  [][/\ (createCalls' # createCalls =>
           /\ op' = "to_request"
           /\ step.lambda_func.function_arn = None
           /\ createCalls' = createCalls + 1)
     /\ (op' \in {"init", "arguments", "properties"} =>
           createCalls' = createCalls /\ calls' = <<>>)
     /\ (op' = "to_request" /\ step.lambda_func.function_arn # None =>
           /\ createCalls' = createCalls
           /\ calls' = <<>>
           /\ ret'.kind = "request"
           /\ ret'.val.FunctionArn = step.lambda_func.function_arn)]_vars

\* A request was built from a descriptor that carries an identifier, and no
\* create() call has been made.
C1_Witness ==
  /\ op = "to_request"
  /\ step.lambda_func.function_arn = ExistingArn
  /\ ret.kind = "request"
  /\ ret.val.FunctionArn = ExistingArn
  /\ createCalls = 0

C3_OutputParametersMirrorOutputs ==
  (op = "to_request" /\ ret.kind = "request") =>
    LET params == ret.val.OutputParameters
    IN /\ Len(params) = Len(step.outputs)
       /\ \A i \in 1..Len(step.outputs) :
            /\ DOMAIN params[i] = {"OutputName", "OutputType"}
            /\ params[i].OutputName = step.outputs[i].output_name
            /\ params[i].OutputType = step.outputs[i].output_type
            /\ params[i].OutputType \in {"String", "Integer", "Boolean", "Float"}

\* A request built for two declared outputs of different names and types.
C3_Witness ==
  /\ op = "to_request"
  /\ ret.kind = "request"
  /\ Len(step.outputs) = 2
  /\ ret.val.OutputParameters =
       <<[OutputName |-> "B", OutputType |-> "Integer"],
         [OutputName |-> "A", OutputType |-> "Boolean"]>>

(***************************************************************************)
(*                       Properties of _processor                          *)
(***************************************************************************)

ProcessorDone == presult.kind = "done"
Local == <<"l", "o", "c", "a", "l">>
LocalGpu == <<"l", "o", "c", "a", "l", "_", "g", "p", "u">>

\* What a call of _processor must yield for candidate processor cand: cand if
\* the config declares it, else a ValueError that lists the declared set.
YieldsDeclared(cand) ==
  IF \E i \in 1..Len(pcall.available_processors) : pcall.available_processors[i] = cand
  THEN presult.out.ok /\ presult.out.val = cand
  ELSE /\ ~presult.out.ok
       /\ presult.out.error.type = "ValueError"
       /\ presult.out.error.arg_name = "processor"
       /\ presult.out.error.options =
            {pcall.available_processors[i] : i \in 1..Len(pcall.available_processors)}

\* C6: for a config that declares processors, an instance type of the form
\* ml[._]<family>[.<size>] resolves to the family itself if the family is
\* declared, else to inf if the family begins with inf, else to gpu if its
\* first character is g or p, else to cpu; local resolves to cpu and
\* local_gpu to gpu (so ml.p3.2xlarge gives gpu, ml.c5.xlarge cpu and
\* ml.inf1.xlarge inf when the family is not itself declared).  The processor
\* is returned only if it is declared; otherwise the call fails with a
\* ValueError.
C6_ProcessorResolution ==
  (ProcessorDone /\ pcall.available_processors # <<>> /\ pcall.instance_type # <<>>) =>
    LET t == pcall.instance_type
        declared == {pcall.available_processors[i] :
                       i \in 1..Len(pcall.available_processors)}
        m == InstanceTypeMatch(t)
        f == m.family
    IN /\ (t = Local => YieldsDeclared("cpu"))
       /\ (t = LocalGpu => YieldsDeclared("gpu"))
       /\ (~StartsWith(t, Local) /\ m.matched =>
             IF StrOf(f) \in declared THEN YieldsDeclared(StrOf(f))
             ELSE IF Len(f) >= 3 /\ f[1] = "i" /\ f[2] = "n" /\ f[3] = "f"
             THEN YieldsDeclared("inf")
             ELSE IF f[1] = "g" \/ f[1] = "p" THEN YieldsDeclared("gpu")
             ELSE YieldsDeclared("cpu"))
       /\ (t = <<"m","l",".","p","3",".","2","x","l","a","r","g","e">>
             /\ "p3" \notin declared => YieldsDeclared("gpu"))
       /\ (t = <<"m","l",".","c","5",".","x","l","a","r","g","e">>
             /\ "c5" \notin declared => YieldsDeclared("cpu"))
       /\ (t = <<"m","l",".","i","n","f","1",".","x","l","a","r","g","e">>
             /\ "inf1" \notin declared => YieldsDeclared("inf"))
       /\ (presult.out.ok => presult.out.val \in declared)

\* ml.inf1.xlarge resolved to inf under a config that declares cpu, gpu, inf.
C6_Witness ==
  /\ ProcessorDone
  /\ pcall.instance_type = <<"m","l",".","i","n","f","1",".","x","l","a","r","g","e">>
  /\ pcall.available_processors = <<"cpu", "gpu", "inf">>
  /\ presult.out.ok
  /\ presult.out.val = "inf"

\* C7: for a config that declares processors, every instance type that is
\* neither local nor local_gpu nor of the form ml[._]<family>[.<size>] makes
\* _processor fail with a ValueError.
C7_MalformedTypeFails ==
  (/\ ProcessorDone
   /\ pcall.available_processors # <<>>
   /\ pcall.instance_type # <<>>
   /\ pcall.instance_type \notin {Local, LocalGpu}
   /\ ~InstanceTypeMatch(pcall.instance_type).matched)
  => (~presult.out.ok /\ presult.out.error.type = "ValueError")

(***************************************************************************)
(*                 Properties of scope resolution                          *)
(***************************************************************************)

\* The scopes a framework config exposes.
ExposedScopes(config) ==
  IF "scope" \in DOMAIN config
  THEN {config["scope"][i] : i \in 1..Len(config["scope"])}
  ELSE DOMAIN config

\* The accelerator type of the call is absent or a valid one.
AcceleratorAccepted ==
  \/ request.accelerator_type = <<>>
  \/ StartsWith(request.accelerator_type, <<"m", "l", ".", "e", "i", "a">>)
  \/ StrOf(request.accelerator_type) = "local_sagemaker_notebook"

\* C10: a framework config that exposes exactly one scope yields that scope's
\* config whatever scope the caller requested (a different one, or eia forced
\* by an accelerator type), without an error; with more scopes, a requested
\* scope that is not among them fails with a ValueError.
C10_SingleScopeNeverFails ==
  (/\ result.kind = "done"
   /\ request.framework \in DOMAIN ConfigTable
   /\ AcceleratorAccepted) =>
    LET config == ConfigTable[request.framework]
        scopes == ExposedScopes(config)
        requested == IF request.accelerator_type # <<>> THEN "eia"
                     ELSE request.image_scope
    IN IF Cardinality(scopes) = 1
       THEN /\ result.out.ok
            /\ result.out.val.image_scope \in scopes
            /\ result.out.val.config =
                 (IF "scope" \in DOMAIN config THEN config
                  ELSE config[CHOOSE k \in scopes : TRUE])
       ELSE (requested # None /\ requested \notin scopes) =>
              /\ ~result.out.ok
              /\ result.out.error.type = "ValueError"
              /\ result.out.error.arg_name = "image scope"

(***************************************************************************)
(*                       Properties of retrieve                            *)
(***************************************************************************)

Returned == result.kind = "done" /\ result.out.ok
Frame == result.out.frame

\* The twelve keys of the auto-select table, and the suffixes it holds.
LegacyKeys ==
  {"tensorflow-2.3-gpu-py37", "tensorflow-2.3.1-gpu-py37", "tensorflow-2.3.2-gpu-py37",
   "tensorflow-1.15-gpu-py37", "tensorflow-1.15.4-gpu-py37", "tensorflow-1.15.5-gpu-py37",
   "mxnet-1.8-gpu-py37", "mxnet-1.8.0-gpu-py37",
   "pytorch-1.6-gpu-py36", "pytorch-1.6.0-gpu-py36",
   "pytorch-1.6-gpu-py3", "pytorch-1.6.0-gpu-py3"}

LegacySuffixes ==
  {"cu110-ubuntu18.04-v3", "cu110-ubuntu18.04", "cu110-ubuntu18.04-v8",
   "cu110-ubuntu16.04-v1", "cu110-ubuntu16.04"}

\* The instance family of the call is p4d, or its distribution names
\* smdistributed.
RequestIsP4d ==
  /\ InstanceTypeMatch(request.instance_type).matched
  /\ InstanceTypeMatch(request.instance_type).family = <<"p", "4", "d">>

RequestIsSmdistributed ==
  request.distribution # <<>> /\ "smdistributed" \in DOMAIN request.distribution

\* C8: the auto-selected suffix is appended to the tag exactly when (the
\* instance family is p4d or the distribution has the smdistributed key) and
\* <framework>-<tag> is one of the twelve table keys; in every other case the
\* tag of the returned URI is the formatted tag, untouched.
C8_AutoSelectOnlyLegacyKeys ==
  Returned =>
    LET key == request.framework \o "-" \o Frame.tag0
        repo == Frame.repository
    IN IF (RequestIsP4d \/ RequestIsSmdistributed) /\ key \in LegacyKeys
       THEN /\ \E suffix \in LegacySuffixes : Frame.tag = Frame.tag0 \o "-" \o suffix
            /\ result.out.val = Frame.registry \o ".dkr." \o Frame.hostname \o "/"
                                  \o repo \o ":" \o Frame.tag
       ELSE /\ Frame.tag = Frame.tag0
            /\ result.out.val = Frame.registry \o ".dkr." \o Frame.hostname \o "/"
                                  \o repo \o (IF Frame.tag0 = "" THEN ""
                                              ELSE ":" \o Frame.tag0)

\* A p4d instance with a tag that is a table key got the suffix.
C8_Witness ==
  /\ Returned
  /\ RequestIsP4d
  /\ ~RequestIsSmdistributed
  /\ request.framework = "tensorflow"
  /\ Frame.tag0 = "2.3.1-gpu-py37"
  /\ Frame.tag = "2.3.1-gpu-py37-cu110-ubuntu18.04"

\* a-b, leaving out an empty side.
Dashed(a, b) == IF a = "" THEN b ELSE IF b = "" THEN a ELSE a \o "-" \o b
OrEmpty(x) == IF x = None THEN "" ELSE x

\* C9: a returned URI is <registry>.dkr.<hostname>/<repository>, followed by
\* :<tag> exactly when the tag is not empty; the tag is the "-"-join of the
\* non-empty ones of tag prefix, processor, runtime version and container
\* version, in that order, plus the auto-selected suffix if one applies.
C9_UriForm ==
  Returned =>
    LET joined == Dashed(Dashed(Dashed(OrEmpty(Frame.tag_prefix),
                                       OrEmpty(Frame.processor)),
                                OrEmpty(Frame.py_version)),
                         OrEmpty(Frame.container_version))
        base == Frame.registry \o ".dkr." \o Frame.hostname \o "/" \o Frame.repository
    IN /\ Frame.tag0 = joined
       /\ \/ Frame.tag = joined
          \/ \E suffix \in LegacySuffixes : Frame.tag = joined \o "-" \o suffix
       /\ Frame.tag = "" => result.out.val = base
       /\ Frame.tag # "" => result.out.val = base \o ":" \o Frame.tag
       /\ Frame.hostname = Hostname(request.region)
       /\ Frame.registry \in {Registries[request.region], AlgoRegistries[request.region]}

\* A URI with an empty tag, hence without a colon.
C9_Witness ==
  /\ Returned
  /\ Frame.tag = ""
  /\ result.out.val = "433757028032.dkr.ecr.us-west-2.amazonaws.com/untagged-algo"

\* The config the call selects, when scope resolution succeeds.
ConfigName ==
  IF request.training_compiler_config # None
  THEN request.framework \o "-training-compiler" ELSE request.framework

Scoped ==
  _config_for_framework_and_scope(ConfigName, request.image_scope,
                                  request.accelerator_type)

ScopeResolved ==
  /\ result.kind = "done"
  /\ request.training_compiler_config # None => request.framework = "huggingface"
  /\ Scoped.ok

SelectedConfig == Scoped.val.config
SelectedVersions == DOMAIN SelectedConfig["versions"]
SelectedAliases ==
  IF "version_aliases" \in DOMAIN SelectedConfig
  THEN DOMAIN SelectedConfig["version_aliases"] ELSE {}

\* Two calls have the same outcome: the same URI, or both fail.
SameOutcome(a, b) == a.ok = b.ok /\ (a.ok => a.val = b.val)

\* The version the call goes on with: the only declared one, or the given one.
ResolvedVersion ==
  IF Cardinality(SelectedVersions) = 1 /\ request.version \notin SelectedAliases
  THEN CHOOSE v \in SelectedVersions : TRUE
  ELSE request.version

\* The config of that version.
VersionConfig ==
  LET key == IF ResolvedVersion \in SelectedAliases
             THEN SelectedConfig["version_aliases"][ResolvedVersion]
             ELSE ResolvedVersion
  IN SelectedConfig["versions"][key]

\* For HuggingFace, the base framework version after its alias table.
FullBaseFrameworkVersion ==
  LET aliases == VersionConfig["version_aliases"]
  IN IF request.base_framework_version \in DOMAIN aliases
     THEN aliases[request.base_framework_version]
     ELSE request.base_framework_version

\* The version stage, and for HuggingFace the base framework stage, pass.
VersionAccepted ==
  ScopeResolved /\ ResolvedVersion \in SelectedVersions \cup SelectedAliases

BaseAccepted ==
  /\ VersionAccepted
  /\ request.framework = "huggingface" =>
       /\ "version_aliases" \in DOMAIN VersionConfig
       /\ FullBaseFrameworkVersion \in DOMAIN VersionConfig

\* The config that holds registries and repository (every config of the table
\* holds them at this level).
LeafConfig ==
  IF request.framework = "huggingface"
  THEN VersionConfig[FullBaseFrameworkVersion] ELSE VersionConfig

\* The processors the selected config declares for that version.
DeclaredProcessors ==
  IF "processors" \in DOMAIN SelectedConfig /\ SelectedConfig["processors"] # <<>>
  THEN SelectedConfig["processors"]
  ELSE IF "processors" \in DOMAIN LeafConfig THEN LeafConfig["processors"]
  ELSE <<>>

DeclaredProcessorSet == {DeclaredProcessors[i] : i \in 1..Len(DeclaredProcessors)}

\* The runtime versions it declares.
DeclaredPyVersions ==
  IF "py_versions" \in DOMAIN LeafConfig
  THEN {LeafConfig["py_versions"][i] : i \in 1..Len(LeafConfig["py_versions"])}
  ELSE {}

\* The runtime version stage and the region stage pass.
PyAccepted ==
  /\ BaseAccepted
  /\ \/ DeclaredPyVersions = {}
     \/ request.py_version \in DeclaredPyVersions
     \/ request.py_version = None
          /\ (request.framework = "spark" \/ Cardinality(DeclaredPyVersions) = 1)

RegionAccepted == PyAccepted /\ request.region \in DOMAIN LeafConfig["registries"]

\* The processor a well-formed instance type stands for.
WellFormedType ==
  \/ StartsWith(request.instance_type, Local)
  \/ InstanceTypeMatch(request.instance_type).matched

CandidateProcessor ==
  LET t == request.instance_type
      f == InstanceTypeMatch(t).family
  IN IF t = Local THEN "cpu"
     ELSE IF StartsWith(t, Local) THEN "gpu"
     ELSE IF StrOf(f) \in DeclaredProcessorSet THEN StrOf(f)
     ELSE IF Len(f) >= 3 /\ f[1] = "i" /\ f[2] = "n" /\ f[3] = "f" THEN "inf"
     ELSE IF f[1] = "g" \/ f[1] = "p" THEN "gpu"
     ELSE "cpu"

\* The call failed with the ValueError of _validate_arg for arg_name, and the
\* error lists exactly options.
Rejected(arg_name, arg, options) ==
  /\ result.kind = "done"
  /\ ~result.out.ok
  /\ result.out.error.type = "ValueError"
  /\ result.out.error.what = "Unsupported"
  /\ result.out.error.arg_name = arg_name
  /\ result.out.error.arg = arg
  /\ result.out.error.options = options

FailedOn(arg_name) == ~result.out.ok /\ result.out.error.arg_name = arg_name

UnsupportedVersion ==
  /\ ScopeResolved
  /\ request.version # None
  /\ request.version \notin SelectedVersions \cup SelectedAliases

UnsupportedPyVersion ==
  /\ BaseAccepted
  /\ request.py_version # None
  /\ request.py_version \notin DeclaredPyVersions

UnsupportedRegion == PyAccepted /\ request.region \notin DOMAIN LeafConfig["registries"]

UnsupportedProcessor ==
  /\ RegionAccepted
  /\ request.instance_type # <<>>
  /\ WellFormedType
  /\ CandidateProcessor \notin DeclaredProcessorSet

VersionArg == request.framework \o " version"

\* C4, as stated: an unsupported version, region, processor or runtime version
\* always makes retrieve fail with a ValueError that lists exactly the
\* declared valid set of that argument.
C4_UnsupportedAlwaysRejected ==
  /\ UnsupportedVersion =>
       Rejected(VersionArg, request.version, SelectedVersions \cup SelectedAliases)
  /\ UnsupportedPyVersion =>
       Rejected("Python version", request.py_version, DeclaredPyVersions)
  /\ UnsupportedRegion =>
       Rejected("region", request.region, DOMAIN LeafConfig["registries"])
  /\ UnsupportedProcessor =>
       Rejected("processor", CandidateProcessor, DeclaredProcessorSet)

\* C4, amended: retrieve checks version, runtime version, region and processor
\* in that order and fails at the first it rejects with a ValueError that
\* lists exactly that argument's declared set.  An unsupported region is
\* always rejected.  An unsupported version is rejected unless the config
\* declares exactly one version, an unsupported runtime version unless the
\* version config declares none, an unsupported processor unless no processor
\* is declared: in those cases the argument is not what the call fails on.
C4_RejectedUnlessDefaulted ==
  /\ UnsupportedVersion =>
       IF Cardinality(SelectedVersions) = 1
       THEN ~FailedOn(VersionArg)
       ELSE Rejected(VersionArg, request.version,
                     SelectedVersions \cup SelectedAliases)
  /\ UnsupportedPyVersion =>
       IF DeclaredPyVersions = {}
       THEN ~FailedOn("Python version")
       ELSE Rejected("Python version", request.py_version, DeclaredPyVersions)
  /\ UnsupportedRegion =>
       Rejected("region", request.region, DOMAIN LeafConfig["registries"])
  /\ UnsupportedProcessor =>
       IF DeclaredProcessors = <<>>
       THEN ~FailedOn("processor")
       ELSE Rejected("processor", CandidateProcessor, DeclaredProcessorSet)

\* An unsupported version was rejected under a config with several versions,
\* the error listing the declared versions and aliases.
C4_Witness ==
  /\ request.framework = "tensorflow"
  /\ request.version = "9.9"
  /\ UnsupportedVersion
  /\ Rejected("tensorflow version", "9.9", {"2.3", "2.3.1", "2.4.1"})

\* C5: when the selected config declares exactly one version, a call without a
\* version has the outcome of the same call with that version; likewise for a
\* framework config with exactly one scope and a call without a scope, and for
\* exactly one declared processor and a call without an instance type (against
\* the same call with an instance type of that processor).
C5_OmittedEqualsExplicit ==
  /\ (/\ ScopeResolved
      /\ Cardinality(SelectedVersions) = 1
      /\ request.version = None) =>
       \A v \in SelectedVersions :
         SameOutcome(result.out, retrieve([request EXCEPT !.version = v]))
  /\ (/\ result.kind = "done"
      /\ ConfigName \in DOMAIN ConfigTable
      /\ Cardinality(ExposedScopes(ConfigTable[ConfigName])) = 1
      /\ request.image_scope = None) =>
       \A sc \in ExposedScopes(ConfigTable[ConfigName]) :
         SameOutcome(result.out, retrieve([request EXCEPT !.image_scope = sc]))
  /\ (/\ Returned
      /\ Len(DeclaredProcessors) = 1
      /\ request.instance_type = <<>>) =>
       \A t \in RetrieveInstanceTypes :
         LET p == _processor(t, DeclaredProcessors)
         IN (t # <<>> /\ p.ok /\ p.val = Frame.processor) =>
              SameOutcome(result.out, retrieve([request EXCEPT !.instance_type = t]))

\* The create() attempts among the platform calls cs, and whether the account
\* lookup that precedes them succeeded.
CreateAttempts(cs) == {i \in DOMAIN cs : cs[i].call = "create"}
AccountFound(cs) == cs # <<>> /\ cs[1].call = "account_id" /\ cs[1].outcome.ok
ConflictHit(cs) ==
  \E i \in CreateAttempts(cs) :
    /\ ~cs[i].outcome.ok
    /\ \E j \in DOMAIN cs[i].outcome.error.text :
         cs[i].outcome.error.text[j] = "ResourceConflictException"

\* The identifier synthesized for the descriptor lf and the account id.
ConflictIdentifier(lf, id) ==
  "arn:"
    \o (IF Lower(lf.session.boto_region_name) \in {"cn-north-1", "cn-northwest-1"}
        THEN "aws-cn" ELSE "aws")
    \o ":lambda:" \o lf.session.boto_region_name \o ":" \o id
    \o ":function:" \o lf.function_name

\* What every to_request() call does, whatever calls came before it: at most
\* one create() attempt, the step left as it was, and the synthesized
\* identifier returned when that attempt hits the naming conflict.
OneAttemptSameStep ==
  /\ Cardinality(CreateAttempts(calls')) <= 1
  /\ createCalls' = createCalls + Cardinality(CreateAttempts(calls'))
  /\ step' = step
  /\ arguments(step') = arguments(step)
  /\ properties(step') = properties(step)
  /\ (ConflictHit(calls') =>
        /\ ret'.kind = "request"
        /\ ret'.val.FunctionArn =
             ConflictIdentifier(step.lambda_func, calls'[1].outcome.id))

\* C11 as stated: across any sequence of to_request() calls on one step, each
\* call makes at most one create() attempt, the step never stores the resolved
\* identifier or changes its inputs, outputs, cache configuration or
\* output-reference properties, a call whose create() hits the naming conflict
\* returns the synthesized identifier, and as long as the descriptor's
\* function_arn is None every to_request() call attempts create() again.
C11_EveryCallAttemptsCreate ==
  [][op' = "to_request" =>
       /\ OneAttemptSameStep
       /\ (step.lambda_func.function_arn = None =>
             Cardinality(CreateAttempts(calls')) = 1)]_vars

\* C11, amended: as above, but a to_request() call on a descriptor whose
\* function_arn is None attempts create() again exactly when the account-id
\* lookup that precedes create() succeeds; when the lookup fails, its error is
\* raised and create() is not attempted.
C11_AttemptsCreateAfterAccountLookup ==
  [][op' = "to_request" =>
       /\ OneAttemptSameStep
       /\ (step.lambda_func.function_arn = None =>
             /\ calls' # <<>> /\ calls'[1].call = "account_id"
             /\ IF AccountFound(calls')
                THEN Cardinality(CreateAttempts(calls')) = 1
                ELSE /\ CreateAttempts(calls') = {}
                     /\ ret'.kind = "raise"
                     /\ ret'.error = calls'[1].outcome.error)]_vars

\* A later to_request() call on the same step: create() was attempted by an
\* earlier call too, the descriptor still has no identifier, and this call's
\* create() hit the naming conflict and returned the synthesized identifier.
C11_Witness ==
  /\ op = "to_request"
  /\ createCalls = MaxCalls
  /\ step.lambda_func.function_arn = None
  /\ ConflictHit(calls)
  /\ ret.kind = "request"
  /\ ret.val.FunctionArn = ConflictIdentifier(step.lambda_func, "111122223333")


=============================================================================
